---- MODULE Spec2Model ----
(***************************************************************************)
(* NightLab WebApp API (bot/api/webapp_api.py): the launch-data signature  *)
(* check and the application handlers, as a state machine.                 *)
(*                                                                         *)
(* Text is a sequence of Unicode code points (integers), so that URL       *)
(* decoding, splitting, sorting and single-bit changes of a character are  *)
(* computed the way the code computes them.                                *)
(***************************************************************************)
EXTENDS Integers, Sequences, FiniteSets, TLC

(***************************************************************************)
(* State.                                                                  *)
(***************************************************************************)
VARIABLES
    \* BOT_TOKEN, read from the environment when the module is loaded
    BOT_TOKEN,
    \* the clock (seconds): time.time(), utcnow(), the store's now
    now,
    \* clock advances taken so far
    ticks,
    \* signature check: the launch payload handed to the validator
    launch_data,
    \* signature check: what the platform signed, [token, fields]
    signed,
    \* signature check: the single-bit change applied to the payload, if any
    flipped,
    \* signature check: the validator's outcome
    result,
    \* store: user rows, a dict tg_id -> username
    users,
    \* store: application rows, in id order
    applications,
    \* the create_application requests in flight and served
    calls,
    \* the response of the latest read: get_application_detail or
    \* get_user_applications
    reply

authVars == <<launch_data, signed, flipped, result>>
storeVars == <<users, applications>>
handlerVars == <<users, applications, calls, reply>>
vars == <<BOT_TOKEN, now, ticks, launch_data, signed, flipped, result,
          users, applications, calls, reply>>

(***************************************************************************)
(* Bounds of the model.                                                    *)
(***************************************************************************)
\* auth_date values 0..MaxAuthDate are signed into launch payloads
MaxAuthDate == 1
\* clock advances taken in the signature-check specification
MaxAuthTicks == 2
\* bits of a character a single-bit change may flip (7: the ASCII range)
CharBits == 7
\* concurrent create_application requests
NumCalls == 1
\* clock advances taken in the handler specification
MaxTicks == 1

(***************************************************************************)
(* Program constants.                                                      *)
(***************************************************************************)
\* time.time() - auth_date > 86400
MAX_AUTH_AGE == 86400
\* set_requisites_and_start_timer(..., ttl_minutes=20) / timedelta(minutes=20)
TTL_MINUTES == 20
\* len(requisites) > 5
MIN_REQUISITES_LEN == 5
\* the development identity returned for an empty or 'test_mode' payload
TEST_USER_ID == 123456

(***************************************************************************)
(* Literals of the source, as code points.                                 *)
(***************************************************************************)
\* "hash"
HashKey == <<104, 97, 115, 104>>
\* "auth_date"
AuthDateKey == <<97, 117, 116, 104, 95, 100, 97, 116, 101>>
\* "user"
UserKey == <<117, 115, 101, 114>>
\* "id"
IdKey == <<105, 100>>
\* "username"
UsernameKey == <<117, 115, 101, 114, 110, 97, 109, 101>>
\* 'test_mode'
TestMode == <<116, 101, 115, 116, 95, 109, 111, 100, 101>>
\* "test_user"
TestUserName == <<116, 101, 115, 116, 95, 117, 115, 101, 114>>
\* b"WebAppData"
WebAppData == <<87, 101, 98, 65, 112, 112, 68, 97, 116, 97>>
\* "user_"
UserPrefix == <<117, 115, 101, 114, 95>>
\* "None" (str(None))
NoneText == <<78, 111, 110, 101>>
\* "{}"
EmptyObjectText == <<123, 125>>
\* "не заданы"
NotConfigured == <<1085, 1077, 32, 1079, 1072, 1076, 1072, 1085, 1099>>

\* Python's None
None == <<"none">>
PyInt(n) == <<"int", n>>
PyStr(s) == <<"str", s>>

(***************************************************************************)
(* dict: a set of <<key, value>> pairs with distinct keys.                 *)
(***************************************************************************)
DictHas(d, k) == \E p \in d : p[1] = k
DictGet(d, k, default) ==
    IF DictHas(d, k) THEN (CHOOSE p \in d : p[1] = k)[2] ELSE default
DictPut(d, k, v) == {p \in d : p[1] # k} \cup {<<k, v>>}
DictPop(d, k) == {p \in d : p[1] # k}

(***************************************************************************)
(* str methods.                                                            *)
(***************************************************************************)
Min(a, b) == IF a < b THEN a ELSE b

\* str.isspace() of one character
IsSpace(c) ==
    \/ c \in 9..13
    \/ c \in 28..32
    \/ c \in {133, 160, 5760, 8232, 8233, 8239, 8287, 12288}
    \/ c \in 8192..8202

\* str.strip()
strip(s) ==
    LET keep == {i \in 1..Len(s) : ~IsSpace(s[i])}
    IN  IF keep = {} THEN <<>>
        ELSE LET a == CHOOSE i \in keep : \A j \in keep : i <= j
                 b == CHOOSE i \in keep : \A j \in keep : j <= i
             IN  SubSeq(s, a, b)

\* needle in s
Contains(s, needle) ==
    \E i \in 0..(Len(s) - Len(needle)) :
        \A j \in 1..Len(needle) : s[i + j] = needle[j]

\* the concatenation of pieces[lo..hi], by halves
RECURSIVE FlattenRange(_, _, _)
FlattenRange(pieces, lo, hi) ==
    IF lo > hi THEN <<>>
    ELSE IF lo = hi THEN pieces[lo]
    ELSE LET mid == (lo + hi) \div 2
         IN  FlattenRange(pieces, lo, mid) \o FlattenRange(pieces, mid + 1, hi)

Flatten(pieces) == FlattenRange(pieces, 1, Len(pieces))

\* the elements of a set of integers in increasing order
Ascending(S) ==
    [k \in 1..Cardinality(S) |->
        CHOOSE p \in S : Cardinality({q \in S : q <= p}) = k]

\* s.split(sep) for a one-character sep
split(s, sep) ==
    LET at == Ascending({i \in 1..Len(s) : s[i] = sep})
        from(k) == IF k = 1 THEN 1 ELSE at[k - 1] + 1
        to(k) == IF k > Len(at) THEN Len(s) ELSE at[k] - 1
    IN  [k \in 1..(Len(at) + 1) |-> SubSeq(s, from(k), to(k))]

\* position of the first sep in s, 0 when there is none
IndexOf(s, sep) ==
    LET at == {i \in 1..Len(s) : s[i] = sep}
    IN  IF at = {} THEN 0 ELSE CHOOSE i \in at : \A j \in at : i <= j

\* a < b for str: code points compared left to right, a proper prefix first
LexLess(a, b) ==
    \E i \in 1..(Min(Len(a), Len(b)) + 1) :
        /\ \A j \in 1..(i - 1) : a[j] = b[j]
        /\ \/ i > Len(a) /\ i <= Len(b)
           \/ i <= Len(a) /\ i <= Len(b) /\ a[i] < b[i]

\* sep.join(parts)
RECURSIVE joinFrom(_, _, _)
joinFrom(parts, sep, i) ==
    IF i > Len(parts) THEN <<>>
    ELSE IF i = Len(parts) THEN parts[i]
    ELSE parts[i] \o sep \o joinFrom(parts, sep, i + 1)

join(parts, sep) == joinFrom(parts, sep, 1)

\* str(n) for an integer n
RECURSIVE DecDigits(_)
DecDigits(n) ==
    IF n < 10 THEN <<48 + n>> ELSE Append(DecDigits(n \div 10), 48 + (n % 10))

DecStr(n) == IF n < 0 THEN <<45>> \o DecDigits(0 - n) ELSE DecDigits(n)

(***************************************************************************)
(* urllib.parse.unquote.  %XX with two hex digits of either case is one    *)
(* byte; a % not followed by two hex digits stays.  Bytes are decoded as   *)
(* UTF-8 with errors='replace': a byte below 0x80 is its character, a lone *)
(* byte from 0x80 up is U+FFFD.                                            *)
(***************************************************************************)
IsHexDigit(c) == c \in 48..57 \/ c \in 65..70 \/ c \in 97..102

HexVal(c) == IF c \in 48..57 THEN c - 48 ELSE IF c \in 65..70 THEN c - 55 ELSE c - 87

\* s[i..i+2] is an escape (the two digits after a % are never a % themselves,
\* so escapes do not overlap)
EscapeAt(s, i) ==
    /\ i >= 1
    /\ i + 2 <= Len(s)
    /\ s[i] = 37
    /\ IsHexDigit(s[i + 1])
    /\ IsHexDigit(s[i + 2])

unquote(s) ==
    Flatten([i \in 1..Len(s) |->
        IF EscapeAt(s, i)
        THEN LET b == 16 * HexVal(s[i + 1]) + HexVal(s[i + 2])
             IN  <<IF b < 128 THEN b ELSE 65533>>
        ELSE IF EscapeAt(s, i - 1) \/ EscapeAt(s, i - 2) THEN <<>>
        ELSE <<s[i]>>])

(***************************************************************************)
(* int(text): surrounding whitespace, an optional sign, decimal digits     *)
(* with single underscores between digits.                                 *)
(***************************************************************************)
IsDigit(c) == c \in 48..57

RECURSIVE digitsValue(_, _, _)
digitsValue(s, i, acc) ==
    IF i > Len(s) THEN acc
    ELSE IF s[i] = 95 THEN digitsValue(s, i + 1, acc)
    ELSE digitsValue(s, i + 1, 10 * acc + (s[i] - 48))

int(text) ==
    LET t == strip(text)
        hasSign == Len(t) > 0 /\ t[1] \in {43, 45}
        body == IF hasSign THEN Tail(t) ELSE t
        wellFormed ==
            /\ Len(body) > 0
            /\ \A i \in 1..Len(body) :
                \/ IsDigit(body[i])
                \/ /\ body[i] = 95
                   /\ 1 < i
                   /\ i < Len(body)
                   /\ IsDigit(body[i - 1])
                   /\ IsDigit(body[i + 1])
    IN  IF ~wellFormed THEN [ok |-> FALSE, val |-> 0]
        ELSE LET v == digitsValue(body, 1, 0)
             IN  [ok |-> TRUE, val |-> IF hasSign /\ t[1] = 45 THEN 0 - v ELSE v]

(***************************************************************************)
(* json.loads, for a compact flat object whose values are integers or      *)
(* strings without escapes: {"id":7,"username":"ann"}.  A repeated key     *)
(* keeps its last value.  Every other text is reported as unparsable.      *)
(***************************************************************************)
JsonError == [ok |-> FALSE, val |-> {}]

\* the least j >= i with s[j] = c, 0 when there is none
FindFrom(s, i, c) ==
    LET at == {j \in i..Len(s) : s[j] = c}
    IN  IF at = {} THEN 0 ELSE CHOOSE j \in at : \A k \in at : j <= k

\* the least j >= i where s[j] is no digit, Len(s) + 1 when all are digits
DigitsEnd(s, i) ==
    LET at == {j \in i..Len(s) : ~IsDigit(s[j])}
    IN  IF at = {} THEN Len(s) + 1 ELSE CHOOSE j \in at : \A k \in at : j <= k

PlainChars(s) == \A i \in 1..Len(s) : s[i] >= 32 /\ s[i] # 92

RECURSIVE jsonMembers(_, _, _)
jsonMembers(s, i, acc) ==
    \* s[i] opens a key
    IF i > Len(s) \/ s[i] # 34 THEN JsonError
    ELSE LET kEnd == FindFrom(s, i + 1, 34)
         IN  IF kEnd = 0 \/ kEnd + 2 > Len(s) \/ s[kEnd + 1] # 58 THEN JsonError
             ELSE LET key == SubSeq(s, i + 1, kEnd - 1)
                      v == kEnd + 2
                      isStr == s[v] = 34
                      neg == s[v] = 45
                      d == IF neg THEN v + 1 ELSE v
                      vEnd == IF isStr THEN FindFrom(s, v + 1, 34) ELSE DigitsEnd(s, d) - 1
                      valueOk ==
                          IF isStr THEN vEnd # 0 /\ PlainChars(SubSeq(s, v + 1, vEnd - 1))
                          ELSE /\ vEnd >= d
                               /\ (s[d] = 48 => vEnd = d)
                      value ==
                          IF isStr THEN PyStr(SubSeq(s, v + 1, vEnd - 1))
                          ELSE LET n == digitsValue(SubSeq(s, d, vEnd), 1, 0)
                               IN  PyInt(IF neg THEN 0 - n ELSE n)
                  IN  IF ~PlainChars(key) \/ ~valueOk \/ vEnd + 1 > Len(s) THEN JsonError
                      ELSE IF s[vEnd + 1] = 125
                           THEN IF vEnd + 1 = Len(s)
                                THEN [ok |-> TRUE, val |-> DictPut(acc, key, value)]
                                ELSE JsonError
                      ELSE IF s[vEnd + 1] = 44
                           THEN jsonMembers(s, vEnd + 2, DictPut(acc, key, value))
                      ELSE JsonError

json_loads(s) ==
    IF s = EmptyObjectText THEN [ok |-> TRUE, val |-> {}]
    ELSE IF Len(s) < 2 \/ s[1] # 123 THEN JsonError
    ELSE jsonMembers(s, 2, {})

(***************************************************************************)
(* HMAC-SHA256, idealised as collision-free: the digest of (key, msg) is   *)
(* the pair itself, and hexdigest renders it injectively as lowercase hex: *)
(* two digits for a length or a code point below 255, ff and four digits   *)
(* for a larger one.                                                       *)
(***************************************************************************)
HexChar(d) == IF d < 10 THEN 48 + d ELSE 87 + d

Hex4(n) ==
    << HexChar((n \div 4096) % 16), HexChar((n \div 256) % 16),
       HexChar((n \div 16) % 16), HexChar(n % 16) >>

HexCode(n) ==
    IF n < 255 THEN <<HexChar(n \div 16), HexChar(n % 16)>>
    ELSE <<102, 102>> \o Hex4(n)

HexOf(s) == Flatten([i \in 1..Len(s) |-> HexCode(s[i])])

HexText(s) == HexCode(Len(s)) \o HexOf(s)

hmac_new(key, msg) == <<key, msg>>

\* hexdigest of hmac_new(hmac_new(label, token), msg)
hexdigest(d) == HexText(d[1][1]) \o HexText(d[1][2]) \o HexOf(d[2])

(***************************************************************************)
(* validate_telegram_init_data                                             *)
(***************************************************************************)
\* params[key] = value for every pair holding "=", split at the first "="
RECURSIVE parseParams(_, _, _)
parseParams(pairs, i, params) ==
    IF i > Len(pairs) THEN params
    ELSE LET pair == pairs[i]
             eq == IndexOf(pair, 61)
         IN  IF eq = 0 THEN parseParams(pairs, i + 1, params)
             ELSE parseParams(pairs, i + 1,
                      DictPut(params, SubSeq(pair, 1, eq - 1),
                              SubSeq(pair, eq + 1, Len(pair))))

\* sorted(params.items())
RECURSIVE sortedItems(_)
sortedItems(params) ==
    IF params = {} THEN <<>>
    ELSE LET m == CHOOSE p \in params :
                      \A q \in params : q = p \/ LexLess(p[1], q[1])
         IN  <<m>> \o sortedItems(params \ {m})

\* "\n".join([f"{k}={v}" for k, v in sorted(params.items())])
data_check_string(params) ==
    LET items == sortedItems(params)
    IN  join([i \in 1..Len(items) |-> items[i][1] \o <<61>> \o items[i][2]], <<10>>)

\* hmac.new(secret_key, data_check_string, sha256).hexdigest()
calculated_hash(token, params) ==
    hexdigest(hmac_new(hmac_new(WebAppData, token), data_check_string(params)))

\* calculated_hash != received_hash
HashMismatch(calculated, received) == calculated # received

\* time.time() - auth_date > 86400
IsExpired(time, auth_date) == time - auth_date > MAX_AUTH_AGE

AuthOk(user) == [ok |-> TRUE, status |-> 200, detail |-> "", user |-> user]
AuthFail(status, detail) == [ok |-> FALSE, status |-> status, detail |-> detail, user |-> {}]

\* token is BOT_TOKEN, time is time.time()
validate_telegram_init_data(init_data, token, time) ==
    IF token = <<>> THEN AuthFail(500, "BOT_TOKEN not configured")
    ELSE IF init_data = <<>> \/ init_data = TestMode
         THEN AuthOk({<<IdKey, PyInt(TEST_USER_ID)>>, <<UsernameKey, PyStr(TestUserName)>>})
    ELSE LET all == parseParams(split(unquote(init_data), 38), 1, {})
             received_hash == DictGet(all, HashKey, <<>>)
             params == DictPop(all, HashKey)
         IN  IF HashMismatch(calculated_hash(token, params), received_hash)
             THEN AuthFail(401, "Auth failed: Invalid init data signature")
             ELSE LET auth_date ==
                          IF DictHas(params, AuthDateKey)
                          THEN int(DictGet(params, AuthDateKey, <<>>))
                          ELSE [ok |-> TRUE, val |-> 0]
                  IN  IF ~auth_date.ok THEN AuthFail(401, "Auth failed: invalid literal for int()")
                      ELSE IF IsExpired(time, auth_date.val)
                           THEN AuthFail(401, "Auth failed: Init data expired")
                      ELSE LET user_data == json_loads(DictGet(params, UserKey, EmptyObjectText))
                           IN  IF ~user_data.ok THEN AuthFail(401, "Auth failed: JSONDecodeError")
                               ELSE AuthOk(user_data.val)

(***************************************************************************)
(* The platform's side of the launch payload format: the fields are        *)
(* signed over their sorted "k=v" lines and sent as one URL-encoded string *)
(* of &-joined key=value pairs, the hash last.                             *)
(***************************************************************************)
Unreserved(c) == c \in 48..57 \/ c \in 65..90 \/ c \in 97..122 \/ c \in {45, 46, 95, 126}

UpperHexChar(d) == IF d < 10 THEN 48 + d ELSE 55 + d

quote(s) ==
    Flatten([i \in 1..Len(s) |->
        IF Unreserved(s[i]) THEN <<s[i]>>
        ELSE <<37, UpperHexChar(s[i] \div 16), UpperHexChar(s[i] % 16)>>])

\* fields: a sequence of <<key, value>> with distinct keys
SignedInitData(token, fields) ==
    LET asDict == {fields[i] : i \in 1..Len(fields)}
        pairs == [i \in 1..Len(fields) |-> fields[i][1] \o <<61>> \o quote(fields[i][2])]
        sig == HashKey \o <<61>> \o calculated_hash(token, asDict)
    IN  join(Append(pairs, sig), <<38>>)

(***************************************************************************)
(* Inputs.                                                                 *)
(***************************************************************************)
\* bot secrets: "T" is the one the platform signs with, "U" another one
Token == <<84>>
OtherToken == <<85>>

\* {"id":7}
User7 == <<123, 34, 105, 100, 34, 58, 55, 125>>
\* {"id":8}
User8 == <<123, 34, 105, 100, 34, 58, 56, 125>>
\* {"id":4,"username":"a"}
UserNamed == <<123, 34, 105, 100, 34, 58, 52, 44, 34, 117, 115, 101, 114,
               110, 97, 109, 101, 34, 58, 34, 97, 34, 125>>
\* {"id":4,"first_name":"a&b"}
UserAmpersand == <<123, 34, 105, 100, 34, 58, 52, 44, 34, 102, 105, 114, 115,
                   116, 95, 110, 97, 109, 101, 34, 58, 34, 97, 38, 98, 34, 125>>
\* {"id": (cut short)
UserBroken == <<123, 34, 105, 100, 34, 58>>

Fields(auth_date, user) == << <<AuthDateKey, auth_date>>, <<UserKey, user>> >>

(***************************************************************************)
(* The store (bot.db.Database), by its operations.                         *)
(***************************************************************************)
TerminalStatuses == {"CONFIRMED", "REJECTED", "EXPIRED"}

\* bank rows, by id: " UA1234 ", "12345", "", "не заданы", and an inactive
\* bank with "UA5678"
BankTable ==
    [b \in 1..5 |->
        CASE b = 1 -> [bank_name |-> "Mono", is_active |-> TRUE,
                       requisites_text |-> <<32, 85, 65, 49, 50, 51, 52, 32>>]
          [] b = 2 -> [bank_name |-> "Privat", is_active |-> TRUE,
                       requisites_text |-> <<49, 50, 51, 52, 53>>]
          [] b = 3 -> [bank_name |-> "Oschad", is_active |-> TRUE,
                       requisites_text |-> <<>>]
          [] b = 4 -> [bank_name |-> "Pumb", is_active |-> TRUE,
                       requisites_text |-> NotConfigured]
          [] b = 5 -> [bank_name |-> "Closed", is_active |-> FALSE,
                       requisites_text |-> <<85, 65, 53, 54, 55, 56>>]]

\* a bank id with no row
AbsentBank == Cardinality(DOMAIN BankTable) + 1

\* country rows, by id
CountryTable == [k \in {1} |-> [name |-> "Ukraine"]]

\* a country id with no row
AbsentCountry == Cardinality(DOMAIN CountryTable) + 1

NoBank == [found |-> FALSE, bank_name |-> "", is_active |-> FALSE, requisites_text |-> <<>>]

\* db.get_bank(bank_id): the row, or None
get_bank(bank_id) ==
    IF bank_id \in DOMAIN BankTable
    THEN [found |-> TRUE] @@ BankTable[bank_id]
    ELSE NoBank

\* db.get_country(country_id): the row, or None
get_country(country_id) ==
    IF country_id \in DOMAIN CountryTable
    THEN [found |-> TRUE, name |-> CountryTable[country_id].name]
    ELSE [found |-> FALSE, name |-> ""]

\* db.upsert_user(tg_id, username): the row is made when there is none
upsert_user(rows, tg_id, username) ==
    IF DictHas(rows, tg_id) THEN rows ELSE DictPut(rows, tg_id, username)

\* db.create_application(tg_id, bank_id, amount, code): the new row, whose id
\* is the next one
new_application(rows, tg_id, bank_id, amount_uah, payment_code, time) ==
    [ id |-> Len(rows) + 1, user_tg_id |-> tg_id, bank_id |-> bank_id,
      amount_uah |-> amount_uah, payment_code |-> payment_code,
      status |-> "WAITING_MERCHANT", requisites_text_override |-> None,
      requisites_sent_at |-> None, expires_at |-> None, created_at |-> time ]

\* db.set_requisites_and_start_timer(app_id, text, ttl_minutes)
set_requisites_and_start_timer(rows, app_id, text, ttl_minutes, time) ==
    [rows EXCEPT ![app_id] =
        [@ EXCEPT !.requisites_text_override = PyStr(text),
                  !.requisites_sent_at = PyInt(time),
                  !.expires_at = PyInt(time + ttl_minutes * 60)]]

NoApplication == new_application(<<>>, None, 0, 0, "", 0)

\* db.get_application(app_id): the row, or None
get_application(rows, app_id) ==
    IF app_id \in 1..Len(rows)
    THEN [found |-> TRUE, row |-> rows[app_id]]
    ELSE [found |-> FALSE, row |-> NoApplication]

\* db.list_user_apps(tg_id, limit, offset, status_filter): the caller's rows,
\* in id order
list_user_apps(rows, tg_id, limit, offset, status_filter) ==
    LET at == Ascending({i \in 1..Len(rows) :
                   /\ rows[i].user_tg_id = tg_id
                   /\ (status_filter = None \/ PyStr(rows[i].status) = status_filter)})
        mine == [k \in 1..Len(at) |-> rows[at[k]]]
    IN  SubSeq(mine, offset + 1, Min(Len(mine), offset + limit))

(***************************************************************************)
(* create_application                                                      *)
(***************************************************************************)
\* str(x)
pystr(x) ==
    IF x = None THEN NoneText
    ELSE IF x[1] = "int" THEN DecStr(x[2])
    ELSE x[2]

\* user.get("id")
user_id(user) == DictGet(user, IdKey, None)

\* user.get("username", f"user_{tg_id}")
user_name(user) == DictGet(user, UsernameKey, PyStr(UserPrefix \o pystr(user_id(user))))

\* data.amount_uah <= 0
AmountRejectedStrict(amount_uah) == amount_uah < 0
AmountRejected(amount_uah) == amount_uah <= 0

\* requisites and len(requisites) > 5 and "не заданы" not in requisites
has_requisites(requisites) ==
    /\ requisites # <<>>
    /\ Len(requisites) > MIN_REQUISITES_LEN
    /\ ~Contains(requisites, NotConfigured)

\* the validator raised: the handler's except clause answers
AuthRejectedOnlyUnconfigured(user) == ~user.ok /\ user.status = 500
AuthRejected(user) == ~user.ok

NoResponse ==
    [ sent |-> FALSE, success |-> FALSE, app_id |-> None, message |-> "",
      requisites |-> None, expires_at |-> None, bank_name |-> "",
      country_name |-> "", amount |-> None ]

\* CreateAppResponse(success=False, message=...)
Failure(message) == [NoResponse EXCEPT !.sent = TRUE, !.message = message]

\* CreateAppResponse(success=True, ...)
Success(app_id, message, requisites, expires_at, bank, country_name, amount) ==
    [ sent |-> TRUE, success |-> TRUE, app_id |-> PyInt(app_id), message |-> message,
      requisites |-> requisites, expires_at |-> expires_at,
      bank_name |-> bank.bank_name, country_name |-> country_name,
      amount |-> PyInt(amount) ]

\* a request not yet received
IdleCall ==
    [ pc |-> "idle", auth_ok |-> FALSE, tg_id |-> None, bank_id |-> 0,
      country_id |-> 0, amount_uah |-> 0, bank |-> NoBank, country_name |-> "",
      app_id |-> 0, new_user |-> FALSE, store_ops |-> {}, raised |-> "",
      response |-> NoResponse ]

Respond(call, response) == [call EXCEPT !.pc = "done", !.response = response]

\* the store operation op raised: the except clause of lines 326-328 answers
Raise(call, op) == Respond([call EXCEPT !.raised = op], Failure("error"))

\* the payload without "&hash=..."
WithoutHash(payload) ==
    LET at == {i \in 1..Len(payload) : payload[i] = 38}
        last == CHOOSE i \in at : \A j \in at : j <= i
    IN  SubSeq(payload, 1, last - 1)

\* the request body: ApplicationCreate
InitDataChoices ==
    { SignedInitData(Token, Fields(DecStr(MAX_AUTH_AGE), User7)),
      SignedInitData(Token, Fields(DecStr(0), User7)),
      SignedInitData(OtherToken, Fields(DecStr(MAX_AUTH_AGE), User7)),
      WithoutHash(SignedInitData(Token, Fields(DecStr(MAX_AUTH_AGE), User7))),
      SignedInitData(Token, Fields(DecStr(MAX_AUTH_AGE), UserBroken)) }

\* the launch payloads of the readers
ReaderChoices ==
    { SignedInitData(Token, Fields(DecStr(MAX_AUTH_AGE), User7)),
      SignedInitData(Token, Fields(DecStr(MAX_AUTH_AGE), User8)) }

\* the clock advances by a second, or to just past a deadline set before
TickChoices == {1, TTL_MINUTES * 60 + 1}

\* the values the clock takes within MaxTicks advances
ClockValues ==
    {MAX_AUTH_AGE + a + b * (TTL_MINUTES * 60 + 1) : a \in 0..MaxTicks, b \in 0..MaxTicks}

\* validate_telegram_init_data on every request payload, secret and clock
\* value of the handler specification, computed once
ValidatedAt ==
    { <<p, k, t, validate_telegram_init_data(p, k, t)>> :
        p \in InitDataChoices \cup ReaderChoices, k \in {<<>>, Token}, t \in ClockValues }

\* validate_telegram_init_data(payload), with BOT_TOKEN and the clock
validated(payload) ==
    (CHOOSE e \in ValidatedAt : e[1] = payload /\ e[2] = BOT_TOKEN /\ e[3] = now)[4]

AmountChoices == {0 - 1, 0, 500}
BankChoices == DOMAIN BankTable \cup {AbsentBank}
CountryChoices == DOMAIN CountryTable \cup {AbsentCountry}
\* random.choices(string.ascii_uppercase + string.digits, k=6)
PaymentCodes == {"A1B2C3"}

ApplicationCreate ==
    [ init_data : InitDataChoices, country_id : CountryChoices,
      bank_id : BankChoices, amount_uah : AmountChoices ]

\* lines 270-276: validate_telegram_init_data, then await db.upsert_user
create_application_begin(c, data) ==
    /\ calls[c].pc = "idle"
    /\ LET user == validated(data.init_data)
           tg_id == user_id(user.user)
           username == user_name(user.user)
           received == [calls[c] EXCEPT !.auth_ok = user.ok]
           tried == [received EXCEPT !.store_ops = @ \cup {"upsert_user"},
                                     !.amount_uah = data.amount_uah]
       IN  IF AuthRejected(user)
           THEN /\ calls' = [calls EXCEPT ![c] = Respond(received, Failure("error"))]
                /\ UNCHANGED users
           ELSE \E raised \in BOOLEAN :
                   IF raised
                   THEN /\ calls' = [calls EXCEPT ![c] = Raise(tried, "upsert_user")]
                        /\ UNCHANGED users
                   ELSE /\ users' = upsert_user(users, tg_id, username)
                        /\ calls' = [calls EXCEPT ![c] =
                               [tried EXCEPT !.pc = "amount", !.tg_id = tg_id,
                                             !.bank_id = data.bank_id,
                                             !.country_id = data.country_id,
                                             !.new_user = ~DictHas(users, tg_id)]]
    /\ UNCHANGED <<BOT_TOKEN, now, ticks, authVars, applications, reply>>

\* lines 278-283: the amount check, then await db.get_bank
create_application_check(c) ==
    /\ calls[c].pc = "amount"
    /\ LET tried == [calls[c] EXCEPT !.store_ops = @ \cup {"get_bank"}]
       IN  IF AmountRejected(calls[c].amount_uah)
           THEN calls' = [calls EXCEPT ![c] = Respond(@, Failure("amount must be greater than 0"))]
           ELSE \E raised \in BOOLEAN :
                   IF raised
                   THEN calls' = [calls EXCEPT ![c] = Raise(tried, "get_bank")]
                   ELSE LET bank == get_bank(calls[c].bank_id)
                        IN  IF ~bank.found
                            THEN calls' = [calls EXCEPT ![c] = Respond(tried, Failure("bank not found"))]
                            ELSE calls' = [calls EXCEPT ![c] =
                                     [tried EXCEPT !.pc = "country", !.bank = bank]]
    /\ UNCHANGED <<BOT_TOKEN, now, ticks, authVars, storeVars, reply>>

\* lines 285-286: await db.get_country
create_application_country(c) ==
    /\ calls[c].pc = "country"
    /\ LET tried == [calls[c] EXCEPT !.store_ops = @ \cup {"get_country"},
                                     !.country_id = 0]
       IN  \E raised \in BOOLEAN :
              IF raised
              THEN calls' = [calls EXCEPT ![c] = Raise(tried, "get_country")]
              ELSE LET country == get_country(calls[c].country_id)
                       country_name == IF country.found THEN country.name ELSE "Unknown"
                   IN  calls' = [calls EXCEPT ![c] =
                           [tried EXCEPT !.pc = "insert", !.country_name = country_name]]
    /\ UNCHANGED <<BOT_TOKEN, now, ticks, authVars, storeVars, reply>>

\* lines 289-298 and 313-324: the payment code, await db.create_application,
\* and the answer when the bank has no usable requisites
create_application_insert(c, payment_code) ==
    /\ calls[c].pc = "insert"
    /\ LET call == calls[c]
           tried == [call EXCEPT !.store_ops = @ \cup {"create_application"}]
       IN  \E raised \in BOOLEAN :
              IF raised
              THEN /\ calls' = [calls EXCEPT ![c] = Raise(tried, "create_application")]
                   /\ UNCHANGED applications
              ELSE LET row == new_application(applications, call.tg_id, call.bank_id,
                                              call.amount_uah, payment_code, now)
                       requisites == strip(call.bank.requisites_text)
                   IN  /\ applications' = Append(applications, row)
                       /\ IF has_requisites(requisites)
                          THEN calls' = [calls EXCEPT ![c] =
                                   [tried EXCEPT !.pc = "requisites", !.app_id = row.id]]
                          ELSE calls' = [calls EXCEPT ![c] =
                                   Respond([tried EXCEPT !.app_id = row.id],
                                       Success(row.id, "created, wait for the operator",
                                               None, None, call.bank, call.country_name,
                                               call.amount_uah))]
    /\ UNCHANGED <<BOT_TOKEN, now, ticks, authVars, users, reply>>

\* line 300: await db.set_requisites_and_start_timer(app_id, requisites,
\* ttl_minutes=20); the store stamps the row with its own reading of the clock
create_application_requisites(c) ==
    /\ calls[c].pc = "requisites"
    /\ LET call == calls[c]
           tried == [call EXCEPT !.store_ops = @ \cup {"set_requisites_and_start_timer"}]
           requisites == strip(call.bank.requisites_text)
       IN  \E raised \in BOOLEAN :
              IF raised
              THEN /\ calls' = [calls EXCEPT ![c] =
                            Raise(tried, "set_requisites_and_start_timer")]
                   /\ UNCHANGED applications
              ELSE /\ applications' =
                          set_requisites_and_start_timer(applications, call.app_id,
                                                         requisites, TTL_MINUTES, now)
                   /\ calls' = [calls EXCEPT ![c] = [tried EXCEPT !.pc = "respond"]]
    /\ UNCHANGED <<BOT_TOKEN, now, ticks, authVars, users, reply>>

\* lines 301-312: the await has returned; expires_at is utcnow() + 20 minutes,
\* read by the handler
create_application_respond(c) ==
    /\ calls[c].pc = "respond"
    /\ LET call == calls[c]
           requisites == strip(call.bank.requisites_text)
           expires_at == now + TTL_MINUTES * 60
       IN  calls' = [calls EXCEPT ![c] =
               Respond(call,
                   Success(call.app_id, "created, requisites issued",
                           PyStr(requisites), PyInt(expires_at),
                           call.bank, call.country_name, call.amount_uah))]
    /\ UNCHANGED <<BOT_TOKEN, now, ticks, authVars, storeVars, reply>>

(***************************************************************************)
(* The readers: get_application_detail, get_user_applications.             *)
(***************************************************************************)
\* STATUS_LABELS.get(status, status), the labels in English
STATUS_LABELS(status) ==
    CASE status = "WAITING_MERCHANT" -> "waiting for a merchant"
      [] status = "MERCHANT_TAKEN" -> "taken by a merchant"
      [] status = "WAITING_PAYMENT" -> "waiting for the payment"
      [] status = "WAITING_RECEIPT" -> "waiting for the receipt"
      [] status = "WAITING_CHECK" -> "being checked"
      [] status = "CONFIRMED" -> "confirmed"
      [] status = "REJECTED" -> "rejected"
      [] status = "EXPIRED" -> "time is up"
      [] OTHER -> status

\* Depends(get_current_user): the caller's identity from the launch payload
get_current_user(payload) == validated(payload)

\* not app or app["user_tg_id"] != tg_id
AccessDeniedNever(app, tg_id) == ~app.found
AccessDenied(app, tg_id) == ~app.found \/ app.row.user_tg_id # tg_id

\* the row's deadline has passed at the time of the read
Overdue(row) == row.expires_at # None /\ row.expires_at[2] < now

\* no read served yet
NoReply ==
    [handler |-> "none", status_code |-> 0, tg_id |-> None, app_id |-> 0, rows |-> <<>>]

\* the handler raised: HTTPException
ReplyError(handler, status_code, tg_id, app_id) ==
    [NoReply EXCEPT !.handler = handler, !.status_code = status_code,
                    !.tg_id = tg_id, !.app_id = app_id]

\* lines 418-429: the dict returned
DetailBody(row) ==
    LET bank == IF row.bank_id # 0 THEN get_bank(row.bank_id) ELSE NoBank
    IN  [ id |-> row.id,
          bank_name |-> IF bank.found THEN bank.bank_name ELSE "Unknown",
          amount_uah |-> row.amount_uah, payment_code |-> row.payment_code,
          status |-> row.status, status_label |-> STATUS_LABELS(row.status),
          created_at |-> row.created_at,
          requisites_sent_at |-> row.requisites_sent_at,
          expires_at |-> row.expires_at,
          requisites |-> row.requisites_text_override,
          \* not returned: the row's owner, and whether its deadline had passed
          owner |-> row.user_tg_id, overdue |-> Overdue(row) ]

\* lines 396-432
get_application_detail(app_id, payload) ==
    /\ LET user == get_current_user(payload)
           tg_id == user_id(user.user)
       IN  IF ~user.ok
           THEN reply' = ReplyError("detail", user.status, None, app_id)
           ELSE \E raised \in BOOLEAN :
                   LET app == get_application(applications, app_id)
                   IN  IF raised \/ AccessDenied(app, tg_id)
                       THEN reply' = ReplyError("detail", 500, tg_id, app_id)
                       ELSE reply' = [ handler |-> "detail", status_code |-> 200,
                                       tg_id |-> tg_id, app_id |-> app_id,
                                       rows |-> <<DetailBody(app.row)>> ]
    /\ UNCHANGED <<BOT_TOKEN, now, ticks, authVars, storeVars, calls>>

\* lines 251-262: one element of the list returned; row[1] is the bank name
\* the store joins in
ListRow(row) ==
    [ id |-> row.id,
      bank_name |-> get_bank(row.bank_id).bank_name,
      amount_uah |-> row.amount_uah, payment_code |-> row.payment_code,
      status |-> row.status, status_label |-> STATUS_LABELS(row.status),
      created_at |-> row.created_at,
      \* not returned: the row's owner, and whether its deadline had passed
      owner |-> row.user_tg_id, overdue |-> Overdue(row) ]

\* limit, offset, status of a list request
QueryChoices ==
    { [limit |-> 20, offset |-> 0, status |-> None],
      [limit |-> 20, offset |-> 0, status |-> PyStr("WAITING_MERCHANT")] }

\* lines 230-265
get_user_applications(payload, query) ==
    /\ LET user == get_current_user(payload)
           tg_id == user_id(user.user)
       IN  IF ~user.ok
           THEN reply' = ReplyError("list", user.status, None, 0)
           ELSE \E raised \in BOOLEAN :
                   LET rows == IF raised THEN <<>>
                               ELSE list_user_apps(applications, tg_id, query.limit,
                                                   query.offset, query.status)
                   IN  reply' = [ handler |-> "list", status_code |-> 200,
                                  tg_id |-> tg_id, app_id |-> 0,
                                  rows |-> [i \in 1..Len(rows) |-> ListRow(rows[i])] ]
    /\ UNCHANGED <<BOT_TOKEN, now, ticks, authVars, storeVars, calls>>

(***************************************************************************)
(* The environment: the operator's bot moves an application along the      *)
(* manual review, and time passes.                                         *)
(***************************************************************************)
NextStatuses(status) ==
    CASE status = "WAITING_MERCHANT" -> {"MERCHANT_TAKEN"}
      [] status = "MERCHANT_TAKEN" -> {"WAITING_PAYMENT"}
      [] status = "WAITING_PAYMENT" -> {"WAITING_RECEIPT"}
      [] status = "WAITING_RECEIPT" -> {"WAITING_CHECK"}
      [] status = "WAITING_CHECK" -> {"CONFIRMED", "REJECTED"}
      [] OTHER -> {}

OperatorStep(app_id) ==
    /\ app_id \in 1..Len(applications)
    /\ \E status \in NextStatuses(applications[app_id].status) :
          applications' = [applications EXCEPT ![app_id].status = status]
    /\ UNCHANGED <<BOT_TOKEN, now, ticks, authVars, users, calls, reply>>

Tick(seconds) ==
    /\ ticks < MaxTicks
    /\ now' = now + seconds
    /\ ticks' = ticks + 1
    /\ UNCHANGED <<BOT_TOKEN, authVars, handlerVars>>

(***************************************************************************)
(* Spec: the handlers over one store.                                      *)
(***************************************************************************)
NotRun == [ok |-> FALSE, status |-> 0, detail |-> "not run", user |-> {}]
NothingSigned == [form |-> "none", token |-> <<>>, fields |-> <<>>]

Calls == 1..NumCalls

Init ==
    /\ BOT_TOKEN \in {<<>>, Token}
    /\ now = MAX_AUTH_AGE
    /\ ticks = 0
    /\ launch_data = <<>>
    /\ signed = NothingSigned
    /\ flipped = <<>>
    /\ result = NotRun
    /\ users = {}
    /\ applications = <<>>
    /\ calls = [c \in Calls |-> IdleCall]
    /\ reply = NoReply

Next ==
    \/ \E c \in Calls, data \in ApplicationCreate : create_application_begin(c, data)
    \/ \E c \in Calls : create_application_check(c)
    \/ \E c \in Calls : create_application_country(c)
    \/ \E c \in Calls, code \in PaymentCodes : create_application_insert(c, code)
    \/ \E c \in Calls : create_application_requisites(c)
    \/ \E c \in Calls : create_application_respond(c)
    \/ \E app_id \in 1..(NumCalls + 1), payload \in ReaderChoices :
          get_application_detail(app_id, payload)
    \/ \E payload \in ReaderChoices, query \in QueryChoices :
          get_user_applications(payload, query)
    \/ \E app_id \in 1..NumCalls : OperatorStep(app_id)
    \/ \E seconds \in TickChoices : Tick(seconds)

Spec == Init /\ [][Next]_vars

(***************************************************************************)
(* Properties of create_application.                                       *)
(***************************************************************************)
\* a request that has been answered
Answered(c) == calls[c].pc = "done" /\ calls[c].response.sent

\* C1: when validate_telegram_init_data rejects the launch payload, the call
\* performs no store operation at all (no upsert_user, no create_application)
\* and answers success = false; and every application row was inserted by a
\* call whose validation returned an identity.
AuthFailureCreatesNothing ==
    /\ \A c \in Calls :
          calls[c].pc # "idle" /\ ~calls[c].auth_ok =>
              /\ Answered(c)
              /\ ~calls[c].response.success
              /\ calls[c].store_ops = {}
              /\ calls[c].app_id = 0
              /\ ~calls[c].new_user
    /\ \A i \in 1..Len(applications) :
          \E c \in Calls : calls[c].auth_ok /\ calls[c].app_id = i

\* C1, its case: the secret is configured and a request has been refused for
\* its payload (forged, expired or with an unparsable user)
AuthFailureAnswered ==
    \E c \in Calls :
        /\ BOT_TOKEN = Token
        /\ Answered(c)
        /\ ~calls[c].auth_ok
        /\ ~calls[c].response.success

\* C2, as amended: an authenticated request with amount <= 0 is answered
\* success = false, with the amount message unless upsert_user raised; it
\* inserts no application row and calls no store operation but upsert_user,
\* which may have created the caller's user row.
NonPositiveAmountCreatesNoApplication ==
    \A c \in Calls :
        Answered(c) /\ calls[c].auth_ok /\ calls[c].amount_uah <= 0 =>
            /\ ~calls[c].response.success
            /\ calls[c].app_id = 0
            /\ calls[c].store_ops = {"upsert_user"}
            /\ \A i \in 1..Len(applications) :
                   \E d \in Calls \ {c} : calls[d].app_id = i
            /\ (calls[c].raised = "" =>
                    calls[c].response.message = "amount must be greater than 0")

\* C2, its case: a request with amount <= 0 was refused for its amount after
\* upsert_user had created the user row
NonPositiveAmountAfterUpsert ==
    \E c \in Calls :
        /\ Answered(c)
        /\ calls[c].auth_ok
        /\ calls[c].amount_uah <= 0
        /\ calls[c].raised = ""
        /\ calls[c].new_user
        /\ DictHas(users, calls[c].tg_id)

\* C2, as stated: an authenticated request with amount <= 0 (no store
\* operation raising) fails for its amount and leaves the store as it was
NonPositiveAmountLeavesStore ==
    \A c \in Calls :
        Answered(c) /\ calls[c].auth_ok /\ calls[c].amount_uah <= 0
                    /\ calls[c].raised = "" =>
            /\ ~calls[c].response.success
            /\ calls[c].response.message = "amount must be greater than 0"
            /\ calls[c].app_id = 0
            /\ ~calls[c].new_user

\* the requisites the handler takes from a bank row
BankRequisites(bank_id) == strip(get_bank(bank_id).requisites_text)

\* C3: after a successful create against a bank with valid requisites the
\* row holds the bank's requisites and expires_at = created_at + 20 minutes,
\* and the expires_at answered is the stored one; against a bank without
\* valid requisites the row has neither requisites nor deadline; and a row
\* has expires_at set exactly when it has requisites.
RequisitesAndDeadlineOnCreate ==
    /\ \A c \in Calls :
          Answered(c) /\ calls[c].response.success =>
              LET row == applications[calls[c].app_id]
                  text == BankRequisites(row.bank_id)
              IN  IF has_requisites(text)
                  THEN /\ row.requisites_text_override = PyStr(text)
                       /\ row.expires_at = PyInt(row.created_at + TTL_MINUTES * 60)
                       /\ calls[c].response.expires_at = row.expires_at
                  ELSE /\ row.requisites_text_override = None
                       /\ row.expires_at = None
    /\ \A i \in 1..Len(applications) :
          (applications[i].expires_at # None)
              <=> (applications[i].requisites_text_override # None)

\* C4: a read (detail or list) of an application whose deadline has passed
\* and whose status is not terminal reports EXPIRED; a terminal status is
\* reported as it is.
ReadsReportExpiry ==
    reply.status_code = 200 =>
        \A k \in 1..Len(reply.rows) :
            LET shown == reply.rows[k]
                stored == applications[shown.id]
            IN  /\ (shown.overdue /\ stored.status \notin TerminalStatuses
                       => shown.status = "EXPIRED")
                /\ (stored.status \in TerminalStatuses
                       => shown.status = stored.status)

\* C5: an application made against a bank with valid requisites never
\* exists in the store without its requisites and deadline, neither while
\* its create_application is in flight nor after it has ended.
RequisitesAssignedWithCreation ==
    \A i \in 1..Len(applications) :
        has_requisites(BankRequisites(applications[i].bank_id)) =>
            /\ applications[i].requisites_text_override # None
            /\ applications[i].expires_at # None

\* C6: get_application_detail answers with the application's fields only
\* when the application exists and its owner is the caller; every other
\* read ends in an error and carries no field of any application.
DetailOnlyForOwner ==
    reply.handler = "detail" =>
        IF reply.status_code = 200
        THEN /\ reply.app_id \in 1..Len(applications)
             /\ applications[reply.app_id].user_tg_id = reply.tg_id
             /\ Len(reply.rows) = 1
             /\ reply.rows[1].id = reply.app_id
             /\ reply.rows[1].owner = reply.tg_id
        ELSE /\ reply.rows = <<>>
             /\ reply.status_code >= 400

\* C6, its case: an authenticated caller asked for an application that
\* exists and belongs to someone else, and was refused
DetailRefusedToStranger ==
    /\ reply.handler = "detail"
    /\ reply.tg_id # None
    /\ reply.app_id \in 1..Len(applications)
    /\ applications[reply.app_id].user_tg_id # reply.tg_id
    /\ reply.status_code = 500
    /\ reply.rows = <<>>

\* C9: an application is inserted only for a bank that exists and is
\* active; for an absent or inactive bank the call fails with "bank not
\* found" and inserts nothing.
ApplicationsOnlyForActiveBanks ==
    /\ \A i \in 1..Len(applications) :
          /\ get_bank(applications[i].bank_id).found
          /\ get_bank(applications[i].bank_id).is_active
    /\ \A c \in Calls :
          /\ Answered(c)
          /\ "get_bank" \in calls[c].store_ops
          /\ calls[c].raised = ""
          /\ ~get_bank(calls[c].bank_id).is_active
          => /\ ~calls[c].response.success
             /\ calls[c].response.message = "bank not found"
             /\ calls[c].app_id = 0

\* C10: a call answered success = false has inserted no application, and a
\* call that inserted an application answers success = true with its app_id.
FailureMeansNothingInserted ==
    \A c \in Calls :
        Answered(c) =>
            /\ (~calls[c].response.success => calls[c].app_id = 0)
            /\ (calls[c].app_id # 0 =>
                   /\ calls[c].response.success
                   /\ calls[c].response.app_id = PyInt(calls[c].app_id))

(***************************************************************************)
(* SpecAuth: validate_telegram_init_data on its own.  The platform signs a *)
(* set of fields, at most one bit of the payload is changed on the way,    *)
(* time passes, and the validator runs once.                               *)
(***************************************************************************)
\* "x": an auth_date that is no number
NotANumber == <<120>>

\* the field sets the platform signs
FieldChoices ==
    { Fields(DecStr(d), User7) : d \in 0..MaxAuthDate }
    \cup { Fields(DecStr(MaxAuthDate), u) : u \in {UserNamed, UserAmpersand, UserBroken} }
    \cup { << <<UserKey, User7>> >>, Fields(NotANumber, User7) }

\* what reaches the validator: a payload signed by `token` over `fields`, the
\* same without its hash pair, the bypass sentinel, or nothing
SignedChoices ==
    { [form |-> "signed", token |-> Token, fields |-> f] : f \in FieldChoices }
    \cup { [form |-> "signed", token |-> OtherToken, fields |-> Fields(DecStr(MaxAuthDate), User7)],
           [form |-> "nohash", token |-> Token, fields |-> Fields(DecStr(MaxAuthDate), User7)],
           [form |-> "test_mode", token |-> <<>>, fields |-> <<>>],
           [form |-> "empty", token |-> <<>>, fields |-> <<>>] }

PayloadOf(s) ==
    CASE s.form = "signed" -> SignedInitData(s.token, s.fields)
      [] s.form = "nohash" -> WithoutHash(SignedInitData(s.token, s.fields))
      [] s.form = "test_mode" -> TestMode
      [] OTHER -> <<>>

\* character c with bit b changed
FlipBit(c, b) == IF (c \div (2 ^ b)) % 2 = 1 THEN c - 2 ^ b ELSE c + 2 ^ b

InitAuth ==
    /\ BOT_TOKEN \in {<<>>, Token}
    /\ now = MAX_AUTH_AGE
    /\ ticks = 0
    /\ signed \in SignedChoices
    /\ launch_data = PayloadOf(signed)
    /\ flipped = <<>>
    /\ result = NotRun
    /\ users = {}
    /\ applications = <<>>
    /\ calls = [c \in Calls |-> IdleCall]
    /\ reply = NoReply

\* one bit of a payload signed with the bot's secret changes in transit
Flip(i, b) ==
    /\ result = NotRun
    /\ flipped = <<>>
    /\ signed.form = "signed"
    /\ signed.token = BOT_TOKEN
    /\ i \in 1..Len(launch_data)
    /\ launch_data' = [launch_data EXCEPT ![i] = FlipBit(@, b)]
    /\ flipped' = <<i, b>>
    /\ UNCHANGED <<BOT_TOKEN, now, ticks, signed, result, handlerVars>>

\* lines 91-129
Validate ==
    /\ result = NotRun
    /\ result' = validate_telegram_init_data(launch_data, BOT_TOKEN, now)
    /\ UNCHANGED <<BOT_TOKEN, now, ticks, launch_data, signed, flipped, handlerVars>>

\* a second passes before the payload is validated
TickAuth ==
    /\ result = NotRun
    /\ flipped = <<>>
    /\ ticks < MaxAuthTicks
    /\ now' = now + 1
    /\ ticks' = ticks + 1
    /\ UNCHANGED <<BOT_TOKEN, authVars, handlerVars>>

NextAuth ==
    \/ \E i \in 1..Len(launch_data), b \in 0..(CharBits - 1) : Flip(i, b)
    \/ Validate
    \/ TickAuth

SpecAuth == InitAuth /\ [][NextAuth]_vars

(***************************************************************************)
(* Properties of validate_telegram_init_data.                              *)
(***************************************************************************)
\* the fields the platform signed, as a dict
SignedFields == {signed.fields[i] : i \in 1..Len(signed.fields)}

\* the identity embedded in the signed fields
EmbeddedUser == json_loads(DictGet(SignedFields, UserKey, EmptyObjectText))

\* the auth_date of the signed fields, 0 when there is none
SignedAuthDate ==
    IF DictHas(SignedFields, AuthDateKey)
    THEN int(DictGet(SignedFields, AuthDateKey, <<>>))
    ELSE [ok |-> TRUE, val |-> 0]

\* the validator has run on a payload the platform signed with the bot's
\* secret, whose auth_date is a number and whose user is a JSON object
ValidatedSigned ==
    /\ result # NotRun
    /\ BOT_TOKEN = Token
    /\ signed.form = "signed"
    /\ signed.token = Token
    /\ SignedAuthDate.ok
    /\ EmbeddedUser.ok

\* C7: a payload signed with the bot's secret (and not older than a day) is
\* accepted with the identity embedded in it; the same payload with any one
\* bit changed is refused with an authentication error; a payload without a
\* hash pair is refused.
SignedAcceptedMutatedRefused ==
    /\ ValidatedSigned /\ flipped = <<>> /\ now - SignedAuthDate.val <= MAX_AUTH_AGE
          => result.ok /\ result.user = EmbeddedUser.val
    /\ ValidatedSigned /\ flipped # <<>>
          => ~result.ok /\ result.status = 401
    /\ result # NotRun /\ BOT_TOKEN = Token /\ signed.form = "nohash"
          => ~result.ok /\ result.status = 401

\* C8: a payload signed with the bot's secret is refused as expired exactly
\* when now - auth_date > 86400, and is accepted at an age of 86400 seconds
\* or less.
ExpiredExactlyPastMaxAge ==
    ValidatedSigned /\ flipped = <<>> =>
        IF now - SignedAuthDate.val > MAX_AUTH_AGE
        THEN ~result.ok /\ result.detail = "Auth failed: Init data expired"
        ELSE result.ok

====
